---- MODULE Spec2Model ----
(***************************************************************************)
(* Timer state machine of the Pomodoro page component (src/app/page.tsx)   *)
(* and its OrangePhysics child: its lifecycle (animation loop, device      *)
(* orientation subscription, motion permission), the population of its    *)
(* particle list and the passes of a physics tick.                         *)
(* State is the components' React state, their refs, the armed intervals,  *)
(* outstanding animation frames and listeners, the requests in flight to   *)
(* the persistence backend and the permission prompt, and the wall clock.  *)
(* One action is one event handler, timer callback or promise             *)
(* continuation together with the render and the effects it causes.       *)
(***************************************************************************)
EXTENDS Integers, FiniteSets, Sequences, TLC

(* ---------------- bounds of the model ---------------- *)
MaxNow == 125000
MaxShortJumps == 4
MaxSessionChanges == 1
MaxInFlight == 1
MaxFrames == 6

(* ---------------- program constants ---------------- *)
DefaultWorkTime == 30
DefaultBreakTime == 5
SecondsPerMinute == 60
MsPerSecond == 1000
IntervalMs == 1000

(* inputs: the duration buttons offered by the settings modal (a subset)   *)
WorkChoices == {1, 30}
BreakChoices == {1, 5}
(* inputs: the session objects the identity provider can deliver (signing  *)
(* out and in again is the session change the model follows)               *)
NoSession == 0
Sessions == {1}
(* the session getSession() finds in storage, if any                       *)
StoredSession == 1
(* inputs: how far the wall clock moves between two events, in ms          *)
ShortJump == MsPerSecond \div 2
LongJump == SecondsPerMinute * MsPerSecond - ShortJump

Null == -1
NoPoll == Null
(* inputs: what the backend holds when the page is opened                  *)
InitialCounts == {1}
InitialSettings == {{}, {[focus_time |-> 1, interval_time |-> 1]}}

(* inputs: the kind of device: DeviceOrientationEvent.requestPermission   *)
(* exists ("consent") or not ("plain")                                     *)
Devices == {"consent", "plain"}
(* inputs: the orientation events the device can deliver (gamma and beta   *)
(* in degrees; a missing angle reads as 0)                                 *)
Samples == {[gamma |-> 0, beta |-> 0], [gamma |-> 2, beta |-> 10]}
(* inputs: how a requestPermission() promise can settle                    *)
PermissionAnswers == {"granted", "denied", "error"}

(* const sensitivity = 3                                                   *)
sensitivity == 3
(* const velocityBoost = 1.5, as a fraction                                *)
velocityBoostNum == 3
velocityBoostDen == 2
(* const defaultAccel = { ax: 0, ay: 500 }                                 *)
defaultAccel == [ax |-> 0, ay |-> 500]
(* useRef({ ax: 0, ay: 0 })                                                *)
InitialAccel == [ax |-> 0, ay |-> 0]
NoAccel == [ax |-> Null, ay |-> Null]

(* lengths are in hundredths of a pixel, velocities in hundredths of a     *)
(* pixel per second, accelerations in pixels per second squared and frame  *)
(* times in ms; a quotient is rounded toward zero                          *)
Unit == 100
(* const orangeSize = 70                                                   *)
orangeSize == 70
size == orangeSize * Unit
(* inputs: container.clientWidth and container.clientHeight                *)
containerWidth == 300 * Unit
containerHeight == 400 * Unit
(* const effectiveRadius = orangeSize / 4; const minDistance = 2 * it      *)
effectiveRadius == size \div 4
minDistance == effectiveRadius * 2
(* inputs: startButtonRef.current.getBoundingClientRect() while the Start  *)
(* button is rendered                                                      *)
StartButtonRect == [left |-> 110 * Unit, right |-> 190 * Unit,
                    top |-> 240 * Unit, bottom |-> 280 * Unit]
(* inputs: time - lastTime of an animation frame, in ms                    *)
Dts == {16, 1000}
(* inputs: the values of Math.random() * (containerWidth - orangeSize) and *)
(* Math.random() * (containerHeight - orangeSize) followed: the least and  *)
(* the largest                                                             *)
SpawnPoints == {[x |-> 0, y |-> 0],
                [x |-> containerWidth - size - 1, y |-> containerHeight - size - 1]}
(* inputs: the counts the backend can hold while particles are followed    *)
StoredCounts == 0 .. 3

VARIABLES
  session, isSessionLoading,
  workTime, breakTime, currentTime, mode,
  isEditing, pomodoroCount, endTime, vibrationEnabled,
  prevModeRef,
  intervals,
  now,
  settingsFetches, countFetches, recordUpdates, saveRequests,
  dbSettings, dbCount,
  sessionChanges, shortJumps,
  lastClick,
  confettiSinceEntry, persistIssued, persistFailed,
  phaseNo, transitions, prevPoll, prevPollAt,
  device, mounted, instance,
  needsMotionPermission, motionPermissionGranted, accelRef,
  listeners, frameRequests, animationFrameId, loopRun, nextFrameId,
  permissionRequests, lastAnswer, lastAccel, sampleArrived,
  oranges, lastTick, populationDue, particlesFollowed

(* session .. vibrationEnabled : the useState cells of PomodoroApp          *)
(* prevModeRef      : prevModeRef.current                                  *)
(* intervals        : the armed setInterval handles, each with the mode    *)
(*                    and endTime its callback closed over, the time its   *)
(*                    callback is next due and the phase that armed it     *)
(* now              : Date.now(), in ms                                    *)
(* settingsFetches  : initUserSettings selects in flight, each with the    *)
(*                    workTime and breakTime it closed over                *)
(* countFetches     : a fetchPomodoroCount select is in flight             *)
(* recordUpdates    : recordPomodoro updates in flight (the count sent)    *)
(* saveRequests     : handleSaveSettings updates in flight (its closure)   *)
(* dbSettings, dbCount : the user's rows in user_settings and pomodoros    *)
(* sessionChanges, shortJumps : how often the bounded inputs were used     *)
(* lastClick        : the transition function called, or the duration      *)
(*                    button clicked, by the last step                     *)
(* confettiSinceEntry : launchConfetti() calls since the mode was entered  *)
(* persistIssued    : update requests sent by recordPomodoro so far        *)
(* persistFailed    : how many of them were answered with an error         *)
(* phaseNo          : number of phases started by startWork / startBreak   *)
(* transitions      : per phase, the mode changes made by its ticks        *)
(* prevPoll, prevPollAt : secondsLeft of the last callback run of the      *)
(*                    phase (NoPoll before the first) and when it ran      *)
(* device           : the kind of device the page runs on                  *)
(* mounted, instance : an OrangePhysics instance is mounted; how many      *)
(*                    were mounted so far (the current one is the last)    *)
(* needsMotionPermission, motionPermissionGranted : its useState cells      *)
(* accelRef         : accelRef.current of the mounted instance             *)
(* listeners        : the instances whose handleDeviceOrientation is       *)
(*                    subscribed to window's deviceorientation events      *)
(* frameRequests    : the outstanding requestAnimationFrame requests, each *)
(*                    with the run of the loop effect that made it and the *)
(*                    permission state that run closed over                *)
(* animationFrameId : the variable of that name in the current run of the  *)
(*                    loop effect                                          *)
(* loopRun, nextFrameId : runs of the loop effect and frame requests so far*)
(* permissionRequests : the instances with a requestPermission() pending   *)
(* lastAnswer       : how the last settled requestPermission() ended       *)
(* lastAccel        : the accel the last run of update computed            *)
(* sampleArrived    : an orientation event reached the mounted instance    *)
(* oranges          : the useState cell of that name: the particles, each  *)
(*                    with id, x, y, vx, vy                                *)
(* lastTick         : the particle list after each pass of the last run of *)
(*                    update and the obstacle it found (NoTick before the  *)
(*                    first)                                               *)
(* populationDue    : a render changed count under a mounted OrangePhysics *)
(*                    and the population effect it scheduled has not run   *)
(*                    yet (effects of a render not caused by a click run   *)
(*                    after the paint that follows it)                     *)
(* particlesFollowed : the behaviour keeps the particle list; where it     *)
(*                    does not, the list is left out (it stays empty)      *)
PageVars == << session, isSessionLoading, workTime, breakTime, currentTime, mode,
           isEditing, pomodoroCount, endTime, vibrationEnabled, prevModeRef,
           intervals, now, settingsFetches, countFetches, recordUpdates,
           saveRequests, dbSettings, dbCount, sessionChanges, shortJumps, lastClick,
           confettiSinceEntry, persistIssued, persistFailed,
           phaseNo, transitions, prevPoll, prevPollAt >>

Physics == << device, mounted, instance, needsMotionPermission,
              motionPermissionGranted, accelRef, listeners, frameRequests,
              animationFrameId, loopRun, nextFrameId, permissionRequests,
              lastAnswer, lastAccel, sampleArrived >>

Particles == << oranges, lastTick, populationDue, particlesFollowed >>

vars == << PageVars, Physics, Particles >>

Modes == {"idle", "work", "finishedWork", "break"}
Running == {"work", "break"}

Max(a, b) == IF a >= b THEN a ELSE b

(* as SecondsLeft, without the Math.max(0, ...) clamp                       *)
SecondsLeftUnclamped(e, t) == (e - t) \div MsPerSecond

(* Math.max(0, Math.floor((endTime - Date.now()) / 1000))                  *)
SecondsLeft(e, t) == Max(0, (e - t) \div MsPerSecond)

(* as NewEnd, with the duration taken as seconds instead of milliseconds   *)
NewEndInSeconds(t, minutes) == t + minutes * SecondsPerMinute

(* Date.now() + minutes * 60 * 1000                                        *)
NewEnd(t, minutes) == t + minutes * SecondsPerMinute * MsPerSecond

(* as StartWorkGuard, for a startWork that restarts a running phase       *)
StartWorkGuardAnyMode(m) == TRUE

(* guard of startWork                                                      *)
StartWorkGuard(m) == m = "idle"

(* as StartBreakGuard, refusing only a break that is already running       *)
StartBreakGuardLoose(m) == m # "break"

(* guard of startBreak                                                     *)
StartBreakGuard(m) == m = "finishedWork"

(* as TickTarget, with the end of work going straight back to idle         *)
TickTargetSkipBreak(m) ==
  IF m = "work" THEN "idle"
  ELSE IF m = "break" THEN "idle"
  ELSE m

(* as TickTarget, with the callback at zero leaving the mode as it is      *)
TickTargetStays(m) == m

(* the mode the interval callback sets when secondsLeft is 0               *)
TickTarget(m) ==
  IF m = "work" THEN "finishedWork"
  ELSE IF m = "break" THEN "idle"
  ELSE m

(* as clearInterval, called with a handle that is not the armed one        *)
clearIntervalWrongHandle(ivs, hs) == ivs

(* clearInterval(handle): the handles hs are removed from the armed set    *)
clearInterval(ivs, hs) == ivs \ hs

(* as TickEndTime, with the callback clearing the deadline at zero         *)
TickEndTimeCleared(e, secondsLeft) == IF secondsLeft = 0 THEN Null ELSE e

(* the interval callback never calls setEndTime: the deadline stays        *)
TickEndTime(e, secondsLeft) == e

(* as CountAfterRecord, with the count raised before the answer is known  *)
CountAfterRecordOptimistic(ok, c) == c + 1

(* recordPomodoro after its await: setPomodoroCount(prev + 1) unless the   *)
(* update returned an error                                                *)
CountAfterRecord(ok, c) == IF ok THEN c + 1 ELSE c

(* the page renders its controls only with a session and after loading     *)
PageShown == session # NoSession /\ ~isSessionLoading

(* the settings modal, a full-screen overlay above the page's controls     *)
ModalShown == PageShown /\ isEditing /\ mode = "idle"

(* the page's own controls can be clicked when the overlay is not on top   *)
PageClickable == PageShown /\ ~ModalShown

(* the component state as the current render sees it                       *)
Cur ==
  [ session |-> session, isSessionLoading |-> isSessionLoading,
    workTime |-> workTime, breakTime |-> breakTime,
    currentTime |-> currentTime, mode |-> mode, isEditing |-> isEditing,
    pomodoroCount |-> pomodoroCount, endTime |-> endTime,
    vibrationEnabled |-> vibrationEnabled, intervals |-> intervals,
    settingsFetches |-> settingsFetches, countFetches |-> countFetches,
    recordUpdates |-> recordUpdates, saveRequests |-> saveRequests,
    phaseNo |-> phaseNo, persistFailed |-> persistFailed ]

(* effect "Reset the timer when in idle mode and workTime changes"         *)
IdleReset(n) ==
  IF (n.workTime # workTime \/ n.mode # mode) /\ n.mode = "idle"
  THEN n.workTime * SecondsPerMinute
  ELSE n.currentTime

(* effect "Timer countdown logic": cleanup of the previous run, then arm   *)
TimerEffect(n) ==
  IF n.mode # mode \/ n.endTime # endTime
  THEN LET own == {iv \in n.intervals : iv.mode = mode /\ iv.endTime = endTime}
           armed == IF n.mode \in Running /\ n.endTime # Null
                    THEN {[mode |-> n.mode, endTime |-> n.endTime,
                           due |-> now + IntervalMs, phase |-> n.phaseNo]}
                    ELSE {}
       IN  clearInterval(n.intervals, own) \cup armed
  ELSE n.intervals

(* the mode side-effect useEffect runs when mode, recordPomodoro           *)
(* (session, pomodoroCount) or vibrationEnabled changed                    *)
SideEffectRuns(n) ==
  \/ n.mode # mode
  \/ n.session # session
  \/ n.pomodoroCount # pomodoroCount
  \/ n.vibrationEnabled # vibrationEnabled

(* number of launchConfetti() calls of the mode side-effect                *)
ConfettiLaunched(n) ==
  IF SideEffectRuns(n)
  THEN (IF n.mode = "finishedWork" THEN 1 ELSE 0)
       + (IF prevModeRef = "break" /\ n.mode = "idle" THEN 1 ELSE 0)
  ELSE 0

(* recordPomodoro() called by the mode side-effect issues the update       *)
RecordIssued(n) ==
  /\ SideEffectRuns(n)
  /\ prevModeRef = "break" /\ n.mode = "idle"
  /\ n.session # NoSession

(* handleDeviceOrientation: accelRef.current from an orientation event     *)
handleDeviceOrientation(event) ==
  [ax |-> event.gamma * sensitivity, ay |-> event.beta * sensitivity]

(* window.DeviceOrientationEvent is defined on the device                  *)
HasDeviceOrientationEvent(d) == d \in {"consent", "plain"}

(* the accel chosen by update, from the permission state its loop effect   *)
(* closed over and the current accelRef                                    *)
Accel(needs, granted, ref) ==
  IF (needs /\ ~granted) \/ ~HasDeviceOrientationEvent(device)
  THEN defaultAccel
  ELSE [ax |-> (ref.ax * velocityBoostNum) \div velocityBoostDen,
        ay |-> (ref.ay * velocityBoostNum) \div velocityBoostDen]

(* as IsGranted, with only an explicit denial counted as a refusal         *)
IsGrantedUnlessDenied(answer) == answer # "denied"

(* permission === "granted", reached only when the await did not throw     *)
IsGranted(answer) == answer = "granted"

(* as cancelAnimationFrame, called with an id that is not outstanding      *)
cancelAnimationFrameStaleId(reqs, id) == reqs

(* cancelAnimationFrame(id)                                                *)
cancelAnimationFrame(reqs, id) == {f \in reqs : f.id # id}

(* requestAnimationFrame(update) by run r of the loop effect               *)
FrameRequest(id, r, needs, granted) ==
  [id |-> id, run |-> r, needs |-> needs, granted |-> granted]

(* window.removeEventListener("deviceorientation", handleDeviceOrientation)*)
RemoveListener(ls, i) == ls \ {i}

(* ---------------- the particles ---------------- *)
Min(a, b) == IF a <= b THEN a ELSE b
Abs(a) == IF a >= 0 THEN a ELSE 0 - a
(* a / b for b > 0, rounded toward zero                                    *)
Trunc(a, b) == IF a >= 0 THEN a \div b ELSE 0 - ((0 - a) \div b)

RECURSIVE SqrtBetween(_, _, _)
SqrtBetween(n, lo, hi) ==
  IF lo >= hi THEN lo
  ELSE LET mid == (lo + hi + 1) \div 2
       IN  IF mid * mid <= n THEN SqrtBetween(n, mid, hi)
           ELSE SqrtBetween(n, lo, mid - 1)

(* Math.sqrt(n) for 0 <= n < 2 * minDistance^2, rounded down                *)
Sqrt(n) == SqrtBetween(n, 0, 2 * minDistance)

(* as Restitution, for a collision that loses no energy                   *)
RestitutionFull(v) == v

(* v * 0.8                                                                 *)
Restitution(v) == Trunc(v * 8, 10)

(* the last line of the boundary branches, with the velocity kept          *)
BounceKeepsVelocity(v) == v

(* vx = -vx * 0.8 (vy likewise)                                            *)
Bounce(v) == Restitution(0 - v)

(* as Integrate, with the copy of the particle given an id of its own      *)
IntegrateNewId(o, accel, dt) ==
  LET vx == o.vx + Trunc(accel.ax * Unit * dt, MsPerSecond)
      vy == o.vy + Trunc(accel.ay * Unit * dt, MsPerSecond)
  IN  [o EXCEPT !.id = o.id + 1, !.vx = vx, !.vy = vy,
                !.x = o.x + Trunc(vx * dt, MsPerSecond),
                !.y = o.y + Trunc(vy * dt, MsPerSecond)]

(* vx += accel.ax * dt; vy += accel.ay * dt; x += vx * dt; y += vy * dt    *)
Integrate(o, accel, dt) ==
  LET vx == o.vx + Trunc(accel.ax * Unit * dt, MsPerSecond)
      vy == o.vy + Trunc(accel.ay * Unit * dt, MsPerSecond)
  IN  [o EXCEPT !.vx = vx, !.vy = vy,
                !.x = o.x + Trunc(vx * dt, MsPerSecond),
                !.y = o.y + Trunc(vy * dt, MsPerSecond)]

(* the two if / else if statements that follow the integration             *)
Boundary(o) ==
  LET h == IF o.x < 0
           THEN [o EXCEPT !.x = 0, !.vx = Bounce(o.vx)]
           ELSE IF o.x + size > containerWidth
           THEN [o EXCEPT !.x = containerWidth - size, !.vx = Bounce(o.vx)]
           ELSE o
  IN  IF h.y < 0
      THEN [h EXCEPT !.y = 0, !.vy = Bounce(h.vy)]
      ELSE IF h.y + size > containerHeight
      THEN [h EXCEPT !.y = containerHeight - size, !.vy = Bounce(h.vy)]
      ELSE h

(* vx *= 0.99; vy *= 0.99                                                  *)
Damp(o) == [o EXCEPT !.vx = Trunc(o.vx * 99, 100), !.vy = Trunc(o.vy * 99, 100)]

(* distance < minDistance && distance > 0, on the squared distance         *)
Collides(d2) == d2 < minDistance * minDistance /\ d2 > 0

(* as ResolvePair, with the separation and the impulse applied to orangeA  *)
(* only                                                                    *)
ResolvePairMovesOne(os, i, j) ==
  LET A == os[i]
      B == os[j]
      dx == B.x - A.x
      dy == B.y - A.y
      near == Abs(dx) < minDistance /\ Abs(dy) < minDistance
      d2 == dx * dx + dy * dy
  IN  IF ~near \/ ~Collides(d2) THEN os
      ELSE
        LET distance == Sqrt(d2)
            sx == Trunc((minDistance - distance) * dx, 2 * distance)
            sy == Trunc((minDistance - distance) * dy, 2 * distance)
            dvx == A.vx - B.vx
            dvy == A.vy - B.vy
            dot == dvx * dx + dvy * dy
            impulse == Trunc(dot, distance)
            impulseScalar == Restitution(0 - impulse)
            jx == IF dot < 0 THEN Trunc(impulseScalar * dx, distance) ELSE 0
            jy == IF dot < 0 THEN Trunc(impulseScalar * dy, distance) ELSE 0
        IN  [os EXCEPT
               ![i] = [A EXCEPT !.x = A.x - sx, !.y = A.y - sy,
                                !.vx = A.vx + jx, !.vy = A.vy + jy]]

(* the body of the inner loop of the pairwise pass for orangeA = os[i] and *)
(* orangeB = os[j]                                                         *)
ResolvePair(os, i, j) ==
  LET A == os[i]
      B == os[j]
      dx == B.x - A.x
      dy == B.y - A.y
      near == Abs(dx) < minDistance /\ Abs(dy) < minDistance
      d2 == dx * dx + dy * dy
  IN  IF ~near \/ ~Collides(d2) THEN os
      ELSE
        LET distance == Sqrt(d2)
            sx == Trunc((minDistance - distance) * dx, 2 * distance)
            sy == Trunc((minDistance - distance) * dy, 2 * distance)
            dvx == A.vx - B.vx
            dvy == A.vy - B.vy
            dot == dvx * dx + dvy * dy
            impulse == Trunc(dot, distance)
            impulseScalar == Restitution(0 - impulse)
            jx == IF dot < 0 THEN Trunc(impulseScalar * dx, distance) ELSE 0
            jy == IF dot < 0 THEN Trunc(impulseScalar * dy, distance) ELSE 0
        IN  [os EXCEPT
               ![i] = [A EXCEPT !.x = A.x - sx, !.y = A.y - sy,
                                !.vx = A.vx + jx, !.vy = A.vy + jy],
               ![j] = [B EXCEPT !.x = B.x + sx, !.y = B.y + sy,
                                !.vx = B.vx - jx, !.vy = B.vy - jy]]

RECURSIVE PairwiseFrom(_, _, _)
PairwiseFrom(os, i, j) ==
  IF i >= Len(os) THEN os
  ELSE IF j > Len(os) THEN PairwiseFrom(os, i + 1, i + 2)
  ELSE PairwiseFrom(ResolvePair(os, i, j), i, j + 1)

(* the two nested loops of the pairwise pass, in their order               *)
Pairwise(os) == PairwiseFrom(os, 1, 2)

(* distX and distY: from the point of rect nearest to the centre of o to   *)
(* that centre                                                             *)
CenterOffset(o, rect) ==
  LET cx == o.x + size \div 2
      cy == o.y + size \div 2
  IN  [x |-> cx - Max(rect.left, Min(cx, rect.right)),
       y |-> cy - Max(rect.top, Min(cy, rect.bottom))]

(* as DefaultNormal, pointing down                                         *)
DefaultNormalDown == [x |-> 0, y |-> 1]

(* nx = 0; ny = -1 for dist === 0                                          *)
DefaultNormal == [x |-> 0, y |-> 0 - 1]

(* the body of the loop of the obstacle pass                               *)
ObstacleStep(o, rect) ==
  LET cx == o.x + size \div 2
      cy == o.y + size \div 2
      nearestX == Max(rect.left, Min(cx, rect.right))
      nearestY == Max(rect.top, Min(cy, rect.bottom))
      distX == cx - nearestX
      distY == cy - nearestY
      near == Abs(distX) < effectiveRadius /\ Abs(distY) < effectiveRadius
      d2 == distX * distX + distY * distY
  IN  IF ~near \/ d2 >= effectiveRadius * effectiveRadius THEN o
      ELSE IF d2 = 0
      THEN LET n == DefaultNormal
               dot == o.vx * n.x + o.vy * n.y
           IN  [o EXCEPT !.vx = o.vx - 2 * dot * n.x,
                         !.vy = o.vy - 2 * dot * n.y,
                         !.x = o.x + n.x * effectiveRadius,
                         !.y = o.y + n.y * effectiveRadius]
      ELSE
        LET dist == Sqrt(d2)
            dot == Trunc(o.vx * distX + o.vy * distY, dist)
            penetration == effectiveRadius - dist
        IN  [o EXCEPT !.vx = o.vx - Trunc(2 * dot * distX, dist),
                      !.vy = o.vy - Trunc(2 * dot * distY, dist),
                      !.x = o.x + Trunc(distX * penetration, dist),
                      !.y = o.y + Trunc(distY * penetration, dist)]

(* as Obstacles, for a button that is rendered in every mode              *)
ObstaclesInEveryMode(m) == {StartButtonRect}

(* startButtonRef.current: the Start button is rendered in idle mode only  *)
Obstacles(m) == IF m = "idle" THEN {StartButtonRect} ELSE {}

(* the obstacle pass                                                       *)
ObstaclePass(os, rects) ==
  IF rects = {} THEN os
  ELSE LET rect == CHOOSE r \in rects : TRUE
       IN  [i \in 1 .. Len(os) |-> ObstacleStep(os[i], rect)]

(* as Update, with the obstacle pass before the pairwise pass              *)
UpdateObstacleFirst(os, accel, dt, rects) ==
  LET integrated == [i \in 1 .. Len(os) |-> Integrate(os[i], accel, dt)]
      bounded == [i \in 1 .. Len(os) |-> Boundary(integrated[i])]
      damped == [i \in 1 .. Len(os) |-> Damp(bounded[i])]
      paired == ObstaclePass(damped, rects)
  IN  [before |-> os, integrated |-> integrated, bounded |-> bounded,
       damped |-> damped, paired |-> paired, rects |-> rects,
       final |-> Pairwise(paired)]

(* the updater update passes to setOranges, with the list after each pass  *)
Update(os, accel, dt, rects) ==
  LET integrated == [i \in 1 .. Len(os) |-> Integrate(os[i], accel, dt)]
      bounded == [i \in 1 .. Len(os) |-> Boundary(integrated[i])]
      damped == [i \in 1 .. Len(os) |-> Damp(bounded[i])]
      paired == Pairwise(damped)
  IN  [before |-> os, integrated |-> integrated, bounded |-> bounded,
       damped |-> damped, paired |-> paired, rects |-> rects,
       final |-> ObstaclePass(paired, rects)]

NoTick == Update(<< >>, defaultAccel, 0, {})

(* prev.slice(0, count) taken from the other end                           *)
SliceNewest(os, count) == SubSeq(os, Len(os) - count + 1, Len(os))

(* prev.slice(0, count)                                                    *)
Slice(os, count) == SubSeq(os, 1, count)

(* id: Date.now() + i                                                      *)
NewId(t, len, i) == t + i

(* as Populate, with one particle added however far the count is ahead    *)
PopulateOne(os, count, t, pts) ==
  IF count > Len(os)
  THEN Append(os, [id |-> NewId(t, Len(os), 0),
                   x |-> pts[1].x, y |-> pts[1].y, vx |-> 0, vy |-> 0])
  ELSE IF count < Len(os) THEN Slice(os, count)
  ELSE os

(* the population effect: count - oranges.length new particles at the      *)
(* random points pts, or the first count of the old ones                  *)
Populate(os, count, t, pts) ==
  IF count > Len(os)
  THEN os \o [i \in 1 .. (count - Len(os)) |->
                [id |-> NewId(t, Len(os), i - 1),
                 x |-> pts[i].x, y |-> pts[i].y, vx |-> 0, vy |-> 0]]
  ELSE IF count < Len(os) THEN Slice(os, count)
  ELSE os

(* the population effect run on the list os for the current count prop     *)
(* (pomodoroCount), whatever random points it draws                        *)
Populated(os, count) ==
  { Populate(os, count, now, pts) :
      pts \in [1 .. Max(0, count - Len(os)) -> SpawnPoints] }

(* the particle list once the effects scheduled by earlier renders have    *)
(* run: React runs them before it renders again                            *)
Flushed(os) == IF populationDue THEN Populated(os, pomodoroCount) ELSE {os}

(* the particle list after the render n: empty in a fresh or unmounted     *)
(* OrangePhysics; in a mounted one the population effect for               *)
(* count = pomodoroCount runs with the other effects of the render, or,    *)
(* when the render was not caused by a click, after the paint that follows *)
PopulationEffect(n) ==
  LET shown == n.session # NoSession /\ ~n.isSessionLoading
  IN  /\ IF ~particlesFollowed THEN UNCHANGED << oranges, populationDue >>
         ELSE IF ~shown THEN oranges' = << >> /\ populationDue' = FALSE
         ELSE IF ~mounted
         THEN /\ oranges' \in Populated(<< >>, n.pomodoroCount)
              /\ populationDue' = FALSE
         ELSE \E base \in Flushed(oranges) :
                \/ /\ oranges' \in Populated(base, n.pomodoroCount)
                   /\ populationDue' = FALSE
                \/ /\ n.pomodoroCount # pomodoroCount
                   /\ n.pomodoroCount # Len(base)
                   /\ oranges' = base
                   /\ populationDue' = TRUE
      /\ UNCHANGED << lastTick, particlesFollowed >>

(* the scheduled population effect runs                                    *)
PopulationEffectRuns ==
  /\ populationDue
  /\ oranges' \in Populated(oranges, pomodoroCount)
  /\ populationDue' = FALSE
  /\ UNCHANGED << lastTick, particlesFollowed >>
  /\ UNCHANGED << PageVars, Physics >>

(* first render of OrangePhysics and its effects: the subscription effect  *)
(* (subscribe, or setNeedsMotionPermission(true) on a consent device), the *)
(* loop effect, and on a consent device the re-render that restarts the    *)
(* loop with needsMotionPermission = true                                  *)
MountOrangePhysics ==
  LET consent == device = "consent"
      first == FrameRequest(nextFrameId, loopRun + 1, FALSE, FALSE)
      second == FrameRequest(nextFrameId + 1, loopRun + 2, TRUE, FALSE)
  IN  /\ mounted' = TRUE
      /\ instance' = instance + 1
      /\ needsMotionPermission' = consent
      /\ motionPermissionGranted' = FALSE
      /\ accelRef' = InitialAccel
      /\ listeners' = IF consent THEN listeners ELSE listeners \cup {instance + 1}
      /\ frameRequests' =
           IF consent
           THEN cancelAnimationFrame(frameRequests \cup {first}, first.id)
                  \cup {second}
           ELSE frameRequests \cup {first}
      /\ animationFrameId' = IF consent THEN second.id ELSE first.id
      /\ loopRun' = IF consent THEN second.run ELSE first.run
      /\ nextFrameId' = nextFrameId + (IF consent THEN 2 ELSE 1)
      /\ lastAccel' = NoAccel
      /\ sampleArrived' = FALSE
      /\ UNCHANGED << device, permissionRequests, lastAnswer >>

(* unmount of OrangePhysics: the cleanups of its effects                   *)
UnmountOrangePhysics ==
  /\ mounted' = FALSE
  /\ listeners' = RemoveListener(listeners, instance)
  /\ frameRequests' = cancelAnimationFrame(frameRequests, animationFrameId)
  /\ animationFrameId' = Null
  /\ needsMotionPermission' = FALSE
  /\ motionPermissionGranted' = FALSE
  /\ accelRef' = InitialAccel
  /\ sampleArrived' = FALSE
  /\ UNCHANGED << device, instance, loopRun, nextFrameId, permissionRequests,
                  lastAnswer, lastAccel >>

(* the page renders OrangePhysics only past its loading and signed-out     *)
(* branches: a render that enters or leaves them mounts or unmounts it     *)
PhysicsLifecycle(n) ==
  LET shown == n.session # NoSession /\ ~n.isSessionLoading
  IN  IF shown /\ ~mounted THEN MountOrangePhysics
      ELSE IF ~shown /\ mounted THEN UnmountOrangePhysics
      ELSE UNCHANGED Physics

(* render of the new state n followed by the effects whose deps changed    *)
Commit(n) ==
  /\ session' = n.session
  /\ isSessionLoading' = n.isSessionLoading
  /\ workTime' = n.workTime
  /\ breakTime' = n.breakTime
  /\ mode' = n.mode
  /\ isEditing' = n.isEditing
  /\ pomodoroCount' = n.pomodoroCount
  /\ endTime' = n.endTime
  /\ vibrationEnabled' = n.vibrationEnabled
  /\ saveRequests' = n.saveRequests
  /\ currentTime' = IdleReset(n)
  /\ intervals' = TimerEffect(n)
  /\ prevModeRef' = IF SideEffectRuns(n) THEN n.mode ELSE prevModeRef
  /\ confettiSinceEntry' =
       (IF n.mode # mode THEN 0 ELSE confettiSinceEntry) + ConfettiLaunched(n)
  /\ persistIssued' = persistIssued + (IF RecordIssued(n) THEN 1 ELSE 0)
  /\ persistFailed' = n.persistFailed
  /\ recordUpdates' =
       IF RecordIssued(n) THEN n.recordUpdates \cup {n.pomodoroCount + 1}
       ELSE n.recordUpdates
  /\ countFetches' =
       IF n.session # session /\ n.session # NoSession
       THEN TRUE
       ELSE n.countFetches
  /\ settingsFetches' =
       IF /\ (n.session # session \/ n.workTime # workTime
                \/ n.breakTime # breakTime)
          /\ n.session # NoSession
       THEN n.settingsFetches \cup {[w |-> n.workTime, b |-> n.breakTime]}
       ELSE n.settingsFetches
  /\ PhysicsLifecycle(n)
  /\ PopulationEffect(n)
  (* a step that would put more selects in flight waits for an answer      *)
  /\ Cardinality(settingsFetches') <= MaxInFlight

Backend == << dbSettings, dbCount >>
Clock == << now, shortJumps >>
PhaseHistory == << phaseNo, transitions, prevPoll, prevPollAt >>

(* OrangePhysics is not mounted before the page has a session             *)
InitPhysics ==
  /\ device \in Devices
  /\ mounted = FALSE
  /\ instance = 0
  /\ needsMotionPermission = FALSE
  /\ motionPermissionGranted = FALSE
  /\ accelRef = InitialAccel
  /\ listeners = {}
  /\ frameRequests = {}
  /\ animationFrameId = Null
  /\ loopRun = 0
  /\ nextFrameId = 0
  /\ permissionRequests = {}
  /\ lastAnswer = "none"
  /\ lastAccel = NoAccel
  /\ sampleArrived = FALSE

(* no particles before OrangePhysics is mounted; the timer and the view's  *)
(* lifecycle are followed without the particle list                        *)
InitNoParticles ==
  /\ oranges = << >>
  /\ lastTick = NoTick
  /\ populationDue = FALSE
  /\ particlesFollowed = FALSE

InitPage ==
  /\ session = NoSession
  /\ isSessionLoading = TRUE
  /\ workTime = DefaultWorkTime
  /\ breakTime = DefaultBreakTime
  /\ currentTime = DefaultWorkTime * SecondsPerMinute
  /\ mode = "idle"
  /\ isEditing = FALSE
  /\ pomodoroCount = 0
  /\ endTime = Null
  /\ vibrationEnabled = FALSE
  /\ prevModeRef = "idle"
  /\ intervals = {}
  /\ now = 0
  /\ settingsFetches = {}
  /\ countFetches = FALSE
  /\ recordUpdates = {}
  /\ saveRequests = {}
  /\ dbSettings \in InitialSettings
  /\ dbCount \in InitialCounts
  /\ sessionChanges = 0
  /\ shortJumps = 0
  /\ lastClick = "none"
  /\ confettiSinceEntry = 0
  /\ persistIssued = 0
  /\ persistFailed = 0
  /\ phaseNo = 0
  /\ transitions = <<>>
  /\ prevPoll = NoPoll
  /\ prevPollAt = 0

(* the page opened on a device of either kind                              *)
InitAnyDevice == InitPage /\ InitPhysics /\ InitNoParticles

(* the page opened on a device without a consent gate                      *)
Init == InitPage /\ InitPhysics /\ InitNoParticles /\ device = "plain"

Orange(id, x, y, vx, vy) == [id |-> id, x |-> x, y |-> y, vx |-> vx, vy |-> vy]

(* inputs: the particle lists a running view is found with at time t: none,*)
(* a batch of two spawned at t, two at one point moving apart, two clamped *)
(* into the bottom left corner, two overlapping at the left wall, an       *)
(* overlapping pair closing and one parting, a row of three overlapping    *)
(* neighbours, one whose centre is inside the Start button, two that touch *)
(* the button from above, one at its top edge and one at its corner, and   *)
(* an overlapping pair of which one touches the button's corner            *)
OrangeLists(t) ==
  { << >>,
    << Orange(t, 0, 0, 0, 0),
       Orange(t + 1, containerWidth - size - 1, containerHeight - size - 1, 0, 0) >>,
    << Orange(0, 100 * Unit, 50 * Unit, 5 * Unit, 0),
       Orange(1, 100 * Unit, 50 * Unit, 0 - 5 * Unit, 0) >>,
    << Orange(0, 0, containerHeight - size, 0, 0),
       Orange(1, 0, containerHeight - size, 0, 0) >>,
    << Orange(0, 0, 100 * Unit, 0, 0),
       Orange(1, 10 * Unit, 100 * Unit, 0, 0) >>,
    << Orange(0, 100 * Unit, 100 * Unit, 300 * Unit, 0),
       Orange(1, 120 * Unit, 100 * Unit, 0 - 300 * Unit, 0) >>,
    << Orange(0, 120 * Unit, 100 * Unit, 300 * Unit, 0),
       Orange(1, 100 * Unit, 100 * Unit, 0 - 300 * Unit, 0) >>,
    << Orange(0, 80 * Unit, 150 * Unit, 0, 0),
       Orange(1, 110 * Unit, 150 * Unit, 0, 0),
       Orange(2, 140 * Unit, 150 * Unit, 0, 0) >>,
    << Orange(0, 115 * Unit, 225 * Unit, 0, 100 * Unit) >>,
    << Orange(0, 115 * Unit, 195 * Unit, 0, 100 * Unit),
       Orange(1, 67 * Unit, 197 * Unit, 100 * Unit, 100 * Unit) >>,
    << Orange(0, 47 * Unit, 197 * Unit, 0 - 100 * Unit, 0),
       Orange(1, 67 * Unit, 197 * Unit, 100 * Unit, 0) >> }

(* a signed-in page in idle mode, with                                     *)
(* its settings loaded and a fetchPomodoroCount in flight; OrangePhysics   *)
(* is mounted (on a device of either kind, as MountOrangePhysics leaves    *)
(* it, a plain one lying flat or tilted) and shows one particle per        *)
(* counted pomodoro                                                        *)
InitParticles ==
  /\ session = StoredSession
  /\ isSessionLoading = FALSE
  /\ workTime = DefaultWorkTime
  /\ breakTime = DefaultBreakTime
  /\ currentTime = DefaultWorkTime * SecondsPerMinute
  /\ mode = "idle"
  /\ isEditing = FALSE
  /\ endTime = Null
  /\ vibrationEnabled = FALSE
  /\ prevModeRef = "idle"
  /\ intervals = {}
  /\ now = 0
  /\ settingsFetches = {}
  /\ countFetches = TRUE
  /\ recordUpdates = {}
  /\ saveRequests = {}
  /\ dbSettings = {[focus_time |-> DefaultWorkTime, interval_time |-> DefaultBreakTime]}
  /\ dbCount \in StoredCounts
  /\ sessionChanges = 0
  /\ shortJumps = 0
  /\ lastClick = "none"
  /\ confettiSinceEntry = 0
  /\ persistIssued = 0
  /\ persistFailed = 0
  /\ phaseNo = 0
  /\ transitions = << >>
  /\ prevPoll = NoPoll
  /\ prevPollAt = 0
  /\ device \in Devices
  /\ mounted = TRUE
  /\ instance = 1
  /\ needsMotionPermission = (device = "consent")
  /\ motionPermissionGranted = FALSE
  /\ accelRef \in IF device = "consent" THEN {InitialAccel}
                  ELSE {InitialAccel} \cup {handleDeviceOrientation(e) : e \in Samples}
  /\ listeners = IF device = "consent" THEN {} ELSE {1}
  /\ loopRun = IF device = "consent" THEN 2 ELSE 1
  /\ nextFrameId = loopRun
  /\ animationFrameId = nextFrameId - 1
  /\ frameRequests =
       {FrameRequest(animationFrameId, loopRun, needsMotionPermission, FALSE)}
  /\ permissionRequests = {}
  /\ lastAnswer = "none"
  /\ lastAccel = NoAccel
  /\ sampleArrived = (accelRef # InitialAccel)
  /\ oranges \in OrangeLists(now)
  /\ pomodoroCount = Len(oranges)
  /\ lastTick = NoTick
  /\ populationDue = FALSE
  /\ particlesFollowed = TRUE

(* supabase.auth.getSession().then(...)                                    *)
GetSessionResolved ==
  /\ isSessionLoading
  /\ \E s \in {NoSession, StoredSession} :
       Commit([Cur EXCEPT !.session = s, !.isSessionLoading = FALSE])
  /\ lastClick' = "none"
  /\ UNCHANGED << Clock, Backend, sessionChanges, PhaseHistory >>

(* supabase.auth.onAuthStateChange listener                                *)
AuthStateChange ==
  /\ sessionChanges < MaxSessionChanges
  /\ \E s \in ({NoSession} \cup Sessions) \ {session} :
       Commit([Cur EXCEPT !.session = s])
  /\ sessionChanges' = sessionChanges + 1
  /\ lastClick' = "none"
  /\ UNCHANGED << Clock, Backend, PhaseHistory >>

(* the wall clock (Date.now()) moves on                                    *)
ClockMoves(d) ==
  /\ now + d <= MaxNow
  /\ now' = now + d
  /\ UNCHANGED << session, isSessionLoading, workTime, breakTime, currentTime,
                  mode, isEditing, pomodoroCount, endTime, vibrationEnabled,
                  prevModeRef, intervals, settingsFetches, countFetches,
                  recordUpdates, saveRequests, dbSettings, dbCount,
                  sessionChanges, lastClick, confettiSinceEntry, persistIssued,
                  persistFailed, PhaseHistory, Physics, Particles >>

(* the wall clock moves on by most of a minute                             *)
AdvanceClock ==
  /\ ClockMoves(LongJump)
  /\ UNCHANGED shortJumps

(* the wall clock moves on by half a second                                *)
AdvanceClockShort ==
  /\ shortJumps < MaxShortJumps
  /\ ClockMoves(ShortJump)
  /\ shortJumps' = shortJumps + 1

(* startWork, the Start button's handler                                   *)
StartWork ==
  /\ PageClickable
  /\ lastClick' = "startWork"
  /\ IF StartWorkGuard(mode)
     THEN /\ Commit([Cur EXCEPT !.endTime = NewEnd(now, workTime),
                                !.mode = "work", !.phaseNo = phaseNo + 1])
          /\ phaseNo' = phaseNo + 1
          /\ transitions' = Append(transitions, 0)
          /\ prevPoll' = NoPoll
          /\ prevPollAt' = now
     ELSE /\ Commit(Cur)
          /\ UNCHANGED PhaseHistory
  /\ UNCHANGED << Clock, Backend, sessionChanges >>

(* startBreak, the Start Pause button's handler                            *)
StartBreak ==
  /\ PageClickable
  /\ lastClick' = "startBreak"
  /\ IF StartBreakGuard(mode)
     THEN /\ Commit([Cur EXCEPT !.endTime = NewEnd(now, breakTime),
                                !.mode = "break", !.phaseNo = phaseNo + 1])
          /\ phaseNo' = phaseNo + 1
          /\ transitions' = Append(transitions, 0)
          /\ prevPoll' = NoPoll
          /\ prevPollAt' = now
     ELSE /\ Commit(Cur)
          /\ UNCHANGED PhaseHistory
  /\ UNCHANGED << Clock, Backend, sessionChanges >>

(* when the callback of an interval runs next: one period after this run,  *)
(* or on the next beat of the interval's own schedule                      *)
NextDue(iv) ==
  { now + IntervalMs,
    now + IntervalMs - ((now - iv.due) % IntervalMs) }

(* the setInterval callback of the countdown effect                        *)
Tick ==
  \E iv \in intervals : \E d \in NextDue(iv) :
    /\ now >= iv.due
    /\ LET secondsLeft == SecondsLeft(iv.endTime, now)
           again == (intervals \ {iv}) \cup {[iv EXCEPT !.due = d]}
           n == IF secondsLeft = 0
                THEN [Cur EXCEPT
                        !.currentTime = secondsLeft,
                        !.endTime = TickEndTime(endTime, secondsLeft),
                        !.intervals = clearInterval(again, {[iv EXCEPT !.due = d]}),
                        !.mode = TickTarget(iv.mode)]
                ELSE [Cur EXCEPT !.currentTime = secondsLeft,
                                 !.intervals = again]
       IN  /\ Commit(n)
           /\ transitions' =
                IF n.mode # mode
                THEN [transitions EXCEPT ![iv.phase] = @ + 1]
                ELSE transitions
           /\ prevPoll' = secondsLeft
           /\ prevPollAt' = now
    /\ lastClick' = "none"
    /\ UNCHANGED << Clock, Backend, sessionChanges, phaseNo >>

(* click on the countdown: mode === "idle" && setIsEditing(true)           *)
OpenSettings ==
  /\ PageClickable
  /\ mode = "idle"
  /\ ~isEditing
  /\ Commit([Cur EXCEPT !.isEditing = TRUE])
  /\ lastClick' = "none"
  /\ UNCHANGED << Clock, Backend, sessionChanges, PhaseHistory >>

(* a work duration button of the modal: setWorkTime(duration)              *)
SelectWorkTime ==
  /\ ModalShown
  /\ \E duration \in WorkChoices \ {workTime} :
       Commit([Cur EXCEPT !.workTime = duration])
  /\ lastClick' = "select"
  /\ UNCHANGED << Clock, Backend, sessionChanges, PhaseHistory >>

(* a break duration button of the modal: setBreakTime(duration)            *)
SelectBreakTime ==
  /\ ModalShown
  /\ \E duration \in BreakChoices \ {breakTime} :
       Commit([Cur EXCEPT !.breakTime = duration])
  /\ lastClick' = "select"
  /\ UNCHANGED << Clock, Backend, sessionChanges, PhaseHistory >>

(* handleSaveSettings up to its await: the update request is sent          *)
SaveSettings ==
  /\ ModalShown
  /\ saveRequests = {}
  /\ Commit([Cur EXCEPT !.saveRequests =
               {[w |-> workTime, b |-> breakTime, mode |-> mode]}])
  /\ lastClick' = "none"
  /\ UNCHANGED << Clock, Backend, sessionChanges, PhaseHistory >>

(* handleSaveSettings after its await: the update succeeded or failed      *)
SaveSettingsDone ==
  \E r \in saveRequests : \E ok \in BOOLEAN :
    /\ dbSettings' =
         IF ok /\ dbSettings # {}
         THEN {[focus_time |-> r.w, interval_time |-> r.b]}
         ELSE dbSettings
    /\ Commit([Cur EXCEPT
                 !.saveRequests = saveRequests \ {r},
                 !.isEditing = FALSE,
                 !.currentTime = IF r.mode = "idle"
                                 THEN r.w * SecondsPerMinute
                                 ELSE currentTime])
    /\ lastClick' = "none"
    /\ UNCHANGED << Clock, dbCount, sessionChanges, PhaseHistory >>

(* initUserSettings after its select: error, stored row, or no row         *)
SettingsFetchDone ==
  \E r \in settingsFetches : \E ok \in BOOLEAN :
    LET rest == settingsFetches \ {r} IN
    /\ IF ~ok
       THEN /\ Commit([Cur EXCEPT !.settingsFetches = rest])
            /\ UNCHANGED dbSettings
       ELSE IF dbSettings # {}
       THEN LET data == CHOOSE row \in dbSettings : TRUE IN
            /\ Commit([Cur EXCEPT
                         !.settingsFetches = rest,
                         !.workTime = data.focus_time,
                         !.breakTime = data.interval_time,
                         !.currentTime = data.focus_time * SecondsPerMinute])
            /\ UNCHANGED dbSettings
       ELSE /\ Commit([Cur EXCEPT !.settingsFetches = rest])
            /\ dbSettings' = {[focus_time |-> r.w, interval_time |-> r.b]}
    /\ lastClick' = "none"
    /\ UNCHANGED << Clock, dbCount, sessionChanges, PhaseHistory >>

(* fetchPomodoroCount after its select: error or the stored count          *)
CountFetchDone ==
  \E ok \in BOOLEAN :
    /\ countFetches
    /\ Commit([Cur EXCEPT
                 !.countFetches = FALSE,
                 !.pomodoroCount = IF ok THEN dbCount ELSE pomodoroCount])
    /\ lastClick' = "none"
    /\ UNCHANGED << Clock, Backend, sessionChanges, PhaseHistory >>

(* recordPomodoro after its update: error, or the count is stored          *)
RecordDone ==
  \E v \in recordUpdates : \E ok \in BOOLEAN :
    /\ dbCount' = IF ok THEN v ELSE dbCount
    /\ Commit([Cur EXCEPT
                 !.recordUpdates = recordUpdates \ {v},
                 !.pomodoroCount = CountAfterRecord(ok, pomodoroCount),
                 !.persistFailed = persistFailed + (IF ok THEN 0 ELSE 1)])
    /\ lastClick' = "none"
    /\ UNCHANGED << Clock, dbSettings, sessionChanges, PhaseHistory >>

(* requestVibrationPermission on a device with navigator.vibrate           *)
EnableVibration ==
  /\ PageClickable
  /\ ~vibrationEnabled
  /\ Commit([Cur EXCEPT !.vibrationEnabled = TRUE])
  /\ lastClick' = "none"
  /\ UNCHANGED << Clock, Backend, sessionChanges, PhaseHistory >>

(* requestMotionPermission up to its await (the Enable Motion button)      *)
RequestMotionPermission ==
  /\ mounted /\ PageClickable
  /\ needsMotionPermission
  /\ instance \notin permissionRequests
  /\ permissionRequests' = permissionRequests \cup {instance}
  /\ UNCHANGED << device, mounted, instance, needsMotionPermission,
                  motionPermissionGranted, accelRef, listeners, frameRequests,
                  animationFrameId, loopRun, nextFrameId, lastAnswer, lastAccel,
                  sampleArrived >>
  /\ UNCHANGED << PageVars, Particles >>

(* requestMotionPermission after its await: on "granted" the two state     *)
(* updates (they reach only a mounted instance, and restart the loop       *)
(* effect) and the subscription; nothing on "denied" or on an exception    *)
PermissionAnswered ==
  \E i \in permissionRequests : \E answer \in PermissionAnswers :
    /\ permissionRequests' = permissionRequests \ {i}
    /\ lastAnswer' = answer
    /\ IF IsGranted(answer)
       THEN /\ listeners' = listeners \cup {i}
            /\ IF mounted /\ i = instance
               THEN /\ motionPermissionGranted' = TRUE
                    /\ needsMotionPermission' = FALSE
                    /\ frameRequests' =
                         cancelAnimationFrame(frameRequests, animationFrameId)
                           \cup {FrameRequest(nextFrameId, loopRun + 1, FALSE, TRUE)}
                    /\ animationFrameId' = nextFrameId
                    /\ loopRun' = loopRun + 1
                    /\ nextFrameId' = nextFrameId + 1
               ELSE UNCHANGED << motionPermissionGranted, needsMotionPermission,
                                 frameRequests, animationFrameId, loopRun,
                                 nextFrameId >>
       ELSE UNCHANGED << listeners, motionPermissionGranted,
                         needsMotionPermission, frameRequests, animationFrameId,
                         loopRun, nextFrameId >>
    /\ UNCHANGED << device, mounted, instance, accelRef, lastAccel, sampleArrived >>
    /\ UNCHANGED << PageVars, Particles >>

(* a deviceorientation event is dispatched to the subscribed handlers; the *)
(* handler of the mounted instance stores it in accelRef                   *)
DeviceOrientation ==
  /\ listeners # {}
  /\ \E event \in Samples :
       IF mounted /\ instance \in listeners
       THEN /\ accelRef' = handleDeviceOrientation(event)
            /\ sampleArrived' = TRUE
       ELSE UNCHANGED << accelRef, sampleArrived >>
  /\ UNCHANGED << device, mounted, instance, needsMotionPermission,
                  motionPermissionGranted, listeners, frameRequests,
                  animationFrameId, loopRun, nextFrameId, permissionRequests,
                  lastAnswer, lastAccel >>
  /\ UNCHANGED << PageVars, Particles >>

(* update, the animation frame callback: it chooses the accel for this     *)
(* tick, moves the particles and requests the next frame; the render its   *)
(* setOranges causes first runs a population effect that is still due,     *)
(* whose update is queued behind the tick's                                *)
Frame ==
  \E f \in frameRequests : \E dt \in Dts :
    /\ nextFrameId < MaxFrames
    /\ lastAccel' = Accel(f.needs, f.granted, accelRef)
    /\ lastTick' = Update(oranges, lastAccel', dt, Obstacles(mode))
    /\ oranges' \in Flushed(lastTick'.final)
    /\ populationDue' = FALSE
    /\ frameRequests' =
         (frameRequests \ {f})
           \cup {FrameRequest(nextFrameId, f.run, f.needs, f.granted)}
    /\ animationFrameId' = IF f.run = loopRun THEN nextFrameId
                           ELSE animationFrameId
    /\ nextFrameId' = nextFrameId + 1
    /\ UNCHANGED << device, mounted, instance, needsMotionPermission,
                    motionPermissionGranted, accelRef, listeners, loopRun,
                    permissionRequests, lastAnswer, sampleArrived,
                    particlesFollowed >>
    /\ UNCHANGED PageVars

Next ==
  \/ GetSessionResolved
  \/ AuthStateChange
  \/ AdvanceClock
  \/ StartWork
  \/ StartBreak
  \/ Tick
  \/ OpenSettings
  \/ SelectWorkTime
  \/ SelectBreakTime
  \/ SaveSettings
  \/ SaveSettingsDone
  \/ SettingsFetchDone
  \/ CountFetchDone
  \/ RecordDone
  \/ EnableVibration

Spec == Init /\ [][Next]_vars

(* the countdown alone, under a clock that also moves in half seconds      *)
NextClock ==
  \/ GetSessionResolved
  \/ SettingsFetchDone
  \/ CountFetchDone
  \/ AdvanceClock
  \/ AdvanceClockShort
  \/ StartWork
  \/ StartBreak
  \/ Tick

SpecClock == Init /\ [][NextClock]_vars

(* the same, with the browser running every interval callback that is due  *)
SpecClockFair == Init /\ [][NextClock]_vars /\ WF_vars(Tick)

(* the particle view: its mounting by the session, the motion permission, *)
(* orientation events and animation frames, on a device of either kind     *)
NextPhysics ==
  \/ GetSessionResolved
  \/ AuthStateChange
  \/ RequestMotionPermission
  \/ PermissionAnswered
  \/ DeviceOrientation
  \/ Frame

SpecPhysics == InitAnyDevice /\ [][NextPhysics]_vars

(* the particles: animation frames (under the default accel on a consent  *)
(* device, under that of a device lying flat or tilted on a plain one),    *)
(* the count prop changed by the answer to fetchPomodoroCount and the      *)
(* population effect that follows it, and the Start button, which the      *)
(* click removes from the page                                             *)
NextParticles ==
  \/ Frame
  \/ CountFetchDone
  \/ PopulationEffectRuns
  \/ StartWork

SpecParticles == InitParticles /\ [][NextParticles]_vars

(* ---------------------------------------------------------------------- *)
(* Properties of the timer state machine                                  *)
(* ---------------------------------------------------------------------- *)

(* C1: the mode only ever changes along Idle->Working (start),            *)
(* Working->WorkDone (tick at zero), WorkDone->OnBreak (startBreak) and   *)
(* OnBreak->Idle (tick at zero), whatever else happens in between.         *)
C1_ModeEdges ==
  [][ mode' # mode =>
        \/ mode = "idle" /\ mode' = "work" /\ lastClick' = "startWork"
        \/ mode = "work" /\ mode' = "finishedWork" /\ prevPoll' = 0
        \/ mode = "finishedWork" /\ mode' = "break" /\ lastClick' = "startBreak"
        \/ mode = "break" /\ mode' = "idle" /\ prevPoll' = 0 ]_vars

(* a whole cycle was run, with a session change on the way                 *)
C1_Witness ==
  /\ mode = "idle" /\ phaseNo = 2 /\ transitions = << 1, 1 >>
  /\ sessionChanges > 0

(* C2: start() outside Idle and startBreak() outside WorkDone leave mode,  *)
(* deadline and remaining seconds unchanged.                               *)
C2_WrongStateNoOp ==
  [][ ( \/ lastClick' = "startWork" /\ mode # "idle"
        \/ lastClick' = "startBreak" /\ mode # "finishedWork" )
      => UNCHANGED << mode, endTime, currentTime >> ]_vars

(* startBreak() was called while a work phase was running                  *)
C2_Witness ==
  /\ lastClick = "startBreak" /\ mode = "work" /\ endTime # Null

(* C3: start() in Idle sets mode Working and deadline now + workTime*60 s, *)
(* startBreak() in WorkDone sets mode OnBreak and deadline                 *)
(* now + breakTime*60 s, with the durations held at the call.              *)
C3_StartSetsDeadline ==
  [][ /\ (lastClick' = "startWork" /\ mode = "idle") =>
            (mode' = "work" /\ endTime' = now + workTime * 60 * 1000)
      /\ (lastClick' = "startBreak" /\ mode = "finishedWork") =>
            (mode' = "break" /\ endTime' = now + breakTime * 60 * 1000)
      /\ (mode = "idle" /\ mode' = "work") =>
            endTime' = now + workTime * 60 * 1000
      /\ (mode = "finishedWork" /\ mode' = "break") =>
            endTime' = now + breakTime * 60 * 1000 ]_vars

(* a break was just started, at a later time and with a changed duration   *)
C3_Witness ==
  /\ lastClick = "startBreak" /\ mode = "break"
  /\ now > 0 /\ breakTime # DefaultBreakTime
  /\ endTime = now + breakTime * 60 * 1000

C5_CountdownIsRounded ==
  [][ ( \/ Tick /\ mode \in Running /\ mode' = mode
        \/ mode \notin Running /\ mode' \in Running )
      => currentTime' = Max(0, (endTime' - now' + 500) \div 1000) ]_vars

(* C6, as claimed: the tick ends a phase only at a time now >= deadline.   *)
C6_NeverEndsEarly ==
  [][ ( \/ mode = "work" /\ mode' = "finishedWork"
        \/ mode = "break" /\ mode' = "idle" )
      => now >= endTime ]_vars

(* C7, as claimed: the values polled in a work phase strictly decrease,    *)
(* are never negative, and the first poll at or after the deadline is 0.   *)
C7_StrictlyDecreasing ==
  [][ (Tick /\ mode = "work") =>
        /\ prevPoll # NoPoll => prevPoll' < prevPoll
        /\ prevPoll' >= 0
        /\ now >= endTime => prevPoll' = 0 ]_vars

(* C7, amended: the polled values never increase, strictly decrease        *)
(* between two polls at least one second apart, are never negative, and    *)
(* the first poll at or after the deadline is 0.                           *)
C7_NonIncreasing ==
  [][ (Tick /\ mode = "work") =>
        /\ prevPoll # NoPoll => prevPoll' <= prevPoll
        /\ (prevPoll # NoPoll /\ now >= prevPollAt + 1000) => prevPoll' < prevPoll
        /\ prevPoll' >= 0
        /\ now >= endTime => prevPoll' = 0 ]_vars

(* the work phase ended on a poll of 0 that came most of a minute late     *)
C7_Witness ==
  /\ mode = "finishedWork" /\ prevPoll = 0
  /\ prevPollAt >= endTime + LongJump

(* C8: every phase ends in exactly one mode transition made by a tick:     *)
(* an ended phase has one, the running phase has none yet.                 *)
C8_OneTransitionPerPhase ==
  /\ Len(transitions) = phaseNo
  /\ \A p \in DOMAIN transitions :
        transitions[p] = IF p < phaseNo \/ mode \notin Running THEN 1 ELSE 0
  /\ \A iv \in intervals : iv.phase = phaseNo /\ iv.mode = mode

(* both phases of a cycle ended, the break on a tick that came late        *)
C8_Witness ==
  /\ transitions = << 1, 1 >> /\ mode = "idle"
  /\ prevPollAt > endTime /\ intervals = {}

(* C9, as claimed: the celebration runs exactly once per entry into       *)
(* WorkDone and once per OnBreak->Idle entry, and not again while the      *)
(* mode stays.                                                             *)
C9_CelebratesOnce ==
  /\ mode = "finishedWork" => confettiSinceEntry = 1
  /\ (mode = "idle" /\ phaseNo > 0) => confettiSinceEntry = 1

(* C10, as claimed: the update of the stored count is issued exactly once  *)
(* per OnBreak->Idle transition and at no other time.                      *)
C10_PersistOncePerCycle ==
  [][ /\ (mode = "break" /\ mode' = "idle") => persistIssued' = persistIssued + 1
      /\ ~(mode = "break" /\ mode' = "idle") => persistIssued' = persistIssued ]_vars

(* C11: with the due interval callbacks run, a Working phase whose         *)
(* deadline has passed reaches WorkDone and an OnBreak phase whose         *)
(* deadline has passed reaches Idle.                                       *)
C11_PhaseEnds ==
  /\ (mode = "work" /\ now >= endTime) ~> (mode = "finishedWork")
  /\ (mode = "break" /\ now >= endTime) ~> (mode = "idle")

(* one-minute work and break, each ended by the tick at exactly 60 s       *)
C11_Witness ==
  /\ workTime = 1 /\ breakTime = 1
  /\ mode = "idle" /\ transitions = << 1, 1 >>
  /\ endTime = 2 * SecondsPerMinute * MsPerSecond /\ prevPollAt = endTime

(* C12, as claimed: workTime and breakTime change only in a step taken    *)
(* while mode is Idle.                                                     *)
C12_DurationsChangeOnlyInIdle ==
  [][ (workTime' # workTime \/ breakTime' # breakTime) => mode = "idle" ]_vars

(* C13, as claimed: while mode is Working or OnBreak the remaining         *)
(* seconds are changed only by the tick, to the value derived from the     *)
(* deadline and now.                                                       *)
C13_OnlyTickWritesCountdown ==
  [][ (mode \in Running /\ currentTime' # currentTime) =>
        (Tick /\ currentTime' = Max(0, (endTime - now) \div 1000)) ]_vars

(* C14, as claimed: in Idle, with all effects run, the remaining seconds   *)
(* are workTime * 60.                                                      *)
C14_IdleShowsWorkTime ==
  mode = "idle" => currentTime = workTime * 60

(* C15, as claimed: without a session no interval is armed, no tick runs   *)
(* and mode and remaining seconds do not change.                           *)
C15_InertWhileSignedOut ==
  [][ session = NoSession =>
        (intervals = {} /\ ~Tick /\ UNCHANGED << mode, currentTime >>) ]_vars

(* C16: a recordPomodoro update answered with an error changes nothing of  *)
(* the in-memory state (count, mode, deadline, remaining seconds,          *)
(* durations, armed interval, what makes the Start button usable) nor     *)
(* the stored count, and issues no further update; no cycle has more than  *)
(* one update issued for it.                                               *)
C16_FailedRecordIsHarmless ==
  [][ /\ persistFailed' # persistFailed =>
            /\ UNCHANGED << pomodoroCount, mode, endTime, currentTime, workTime,
                            breakTime, intervals, dbCount, session,
                            isSessionLoading, isEditing >>
            /\ persistIssued' = persistIssued
            /\ recordUpdates' # recordUpdates /\ recordUpdates' \subseteq recordUpdates
      /\ persistIssued' * 2 <= phaseNo' ]_vars

(* the update of a completed cycle failed and the next work phase runs     *)
C16_Witness ==
  /\ persistFailed = 1 /\ persistIssued = 1 /\ recordUpdates = {}
  /\ mode = "work" /\ phaseNo = 3 /\ intervals # {}

(* C17: at most one interval is armed, only while mode is Working or       *)
(* OnBreak (and then one is), and it is the one armed for the current      *)
(* phase with the current deadline: no interval of an earlier phase is     *)
(* left whose callback could run.                                          *)
C17_OneIntervalArmed ==
  /\ Cardinality(intervals) <= 1
  /\ (intervals # {}) <=> (mode \in Running)
  /\ \A iv \in intervals :
        iv.mode = mode /\ iv.endTime = endTime /\ iv.phase = phaseNo

(* the interval of the break is armed and has run, after the interval of   *)
(* the work phase and across a sign-out                                    *)
C17_Witness ==
  /\ mode = "break" /\ Cardinality(intervals) = 1 /\ prevPoll > 0
  /\ session = NoSession /\ sessionChanges > 0

(* ---------------------------------------------------------------------- *)
(* Properties of the particle view's loop and subscription                *)
(* ---------------------------------------------------------------------- *)

(* C18: a mounted particle view has exactly one animation frame request   *)
(* outstanding, the one its current loop run holds the id of (so a         *)
(* restart has cancelled the previous one), and an unmounted view has      *)
(* none, so no frame callback runs after the unmount.                      *)
C18_OneFrameRequest ==
  /\ Cardinality(frameRequests) <= 1
  /\ (frameRequests # {}) <=> mounted
  /\ \A f \in frameRequests : f.id = animationFrameId /\ f.run = loopRun

(* the loop was restarted by the permission grant, ran, and the view was   *)
(* unmounted with nothing left outstanding                                 *)
C18_Witness ==
  /\ ~mounted /\ instance = 1 /\ loopRun = 3 /\ nextFrameId > loopRun
  /\ frameRequests = {} /\ lastAccel # NoAccel

(* C19, as claimed: every subscribed deviceorientation listener belongs    *)
(* to the mounted particle view; after an unmount none remains.            *)
C19_NoListenerAfterUnmount ==
  \A i \in listeners : mounted /\ i = instance

(* C20, as claimed: on a device that requires consent every physics tick   *)
(* uses (0, G) unless consent was granted and a live sample has arrived.   *)
C20_DefaultUntilFirstSample ==
  [][ (Frame /\ device = "consent" /\ ~(motionPermissionGranted /\ sampleArrived))
        => lastAccel' = [ax |-> 0, ay |-> 500] ]_vars

(* C21, as claimed: on a device without a consent gate every physics tick  *)
(* before the first orientation sample uses (0, G), never the zero vector. *)
C21_DefaultBeforeFirstSample ==
  [][ (Frame /\ device = "plain" /\ ~sampleArrived)
        => lastAccel' = [ax |-> 0, ay |-> 500] ]_vars

(* C22: a consent request that is denied or throws changes nothing but    *)
(* the pending request: no listener is subscribed, the permission state,   *)
(* the outstanding frame and the page (its timer included) are as before;  *)
(* and as long as consent is not granted every tick uses (0, G) and the    *)
(* mounted view has no listener.                                           *)
C22_RefusalKeepsDefault ==
  [][ /\ ( /\ permissionRequests' # permissionRequests
           /\ permissionRequests' \subseteq permissionRequests
           /\ lastAnswer' \in {"denied", "error"} )
        => UNCHANGED << listeners, needsMotionPermission, motionPermissionGranted,
                        frameRequests, animationFrameId, loopRun, accelRef,
                        mounted, PageVars >>
      /\ (Frame /\ device = "consent" /\ ~motionPermissionGranted)
        => lastAccel' = [ax |-> 0, ay |-> 500]
      /\ (device = "consent" /\ mounted' /\ ~motionPermissionGranted')
        => instance' \notin listeners' ]_vars

(* consent was denied, ticks ran with the default, and the button was      *)
(* clicked again                                                           *)
C22_Witness ==
  /\ lastAnswer = "denied" /\ mounted /\ needsMotionPermission
  /\ instance \in permissionRequests /\ listeners = {}
  /\ lastAccel = [ax |-> 0, ay |-> 500] /\ nextFrameId = MaxFrames

(* ---------------------------------------------------------------------- *)
(* Properties of the particles                                            *)
(* ---------------------------------------------------------------------- *)

(* C23: at the end of every run of update every particle has its x within  *)
(* [0, containerWidth - orangeSize] and its y within                       *)
(* [0, containerHeight - orangeSize], the pairwise separation and the      *)
(* obstacle push-out included                                              *)
C23_ContainedAfterTick ==
  \A i \in DOMAIN lastTick.final :
    /\ 0 <= lastTick.final[i].x
    /\ lastTick.final[i].x <= containerWidth - size
    /\ 0 <= lastTick.final[i].y
    /\ lastTick.final[i].y <= containerHeight - size

(* C24: at the end of every run of update the centres of every two         *)
(* particles are at least 2 * effectiveRadius - epsilon apart (epsilon one *)
(* pixel), pairs that started at one point or were pushed together by the  *)
(* resolution of another pair included                                     *)
C24_NoOverlapAfterTick ==
  \A i, j \in DOMAIN lastTick.final :
    i < j =>
      LET dx == lastTick.final[j].x - lastTick.final[i].x
          dy == lastTick.final[j].y - lastTick.final[i].y
      IN  \/ Abs(dx) >= minDistance - Unit
          \/ Abs(dy) >= minDistance - Unit
          \/ dx * dx + dy * dy >= (minDistance - Unit) * (minDistance - Unit)

(* C25: once the population effect has run there is one particle per       *)
(* counted pomodoro, and a step in which it adds particles appends exactly *)
(* as many as the count is ahead, with velocity (0, 0) at positions inside *)
(* the container, while the particles there were keep their ids, positions *)
(* and velocities (those a tick of the same step gave them)                *)
C25_PopulationTracksCount ==
  [][ /\ ~populationDue' => Len(oranges') = pomodoroCount'
      /\ Len(oranges') > Len(oranges) =>
           /\ Len(oranges') = pomodoroCount'
           /\ SubSeq(oranges', 1, Len(oranges)) =
                (IF nextFrameId' # nextFrameId THEN lastTick'.final ELSE oranges)
           /\ \A i \in (Len(oranges) + 1) .. Len(oranges') :
                /\ oranges'[i].vx = 0 /\ oranges'[i].vy = 0
                /\ 0 <= oranges'[i].x /\ oranges'[i].x <= containerWidth - size
                /\ 0 <= oranges'[i].y /\ oranges'[i].y <= containerHeight - size
    ]_vars

(* the count was raised from 1 to 3 after a tick had moved the one         *)
(* particle: it is as the tick left it and two new ones are at rest        *)
C25_Witness ==
  /\ ~countFetches /\ pomodoroCount = 3 /\ Len(oranges) = 3
  /\ Len(lastTick.final) = 1 /\ lastTick.final[1] # lastTick.before[1]
  /\ oranges[1] = lastTick.final[1]
  /\ oranges[2].vx = 0 /\ oranges[2].x = 0
  /\ oranges[3].vy = 0 /\ oranges[3].x = containerWidth - size - 1

(* C26: a step in which the population effect removes particles for a      *)
(* count lowered from n to m removes the n - m particles added last: the m *)
(* oldest stay, in their order, with their id, position and velocity       *)
(* (those a tick of the same step gave them)                               *)
C26_ShrinkRemovesNewest ==
  [][ Len(oranges') < Len(oranges) =>
        /\ Len(oranges') = pomodoroCount'
        /\ oranges' =
             SubSeq(IF nextFrameId' # nextFrameId THEN lastTick'.final ELSE oranges,
                    1, pomodoroCount')
        /\ \A i \in 1 .. Len(oranges') : \A j \in (Len(oranges') + 1) .. Len(oranges) :
             oranges'[i].id # oranges[j].id
    ]_vars

(* the count was lowered from 3 to 1 after a tick had moved the three      *)
(* particles: the first of them is left, as the tick left it               *)
C26_Witness ==
  /\ ~countFetches /\ pomodoroCount = 1 /\ Len(oranges) = 1
  /\ Len(lastTick.final) = 3 /\ lastTick.final # lastTick.before
  /\ oranges[1] = lastTick.final[1]
  /\ oranges[1].id < lastTick.final[2].id

(* C27: the ids of the particles are pairwise distinct in every state,     *)
(* also when two batches are added within a few milliseconds               *)
C27_DistinctIds ==
  \A i, j \in 1 .. Len(oranges) : i # j => oranges[i].id # oranges[j].id

(* C28: a run of update that finds two particles at one point with the     *)
(* velocities (5, 0) and (-5, 0) leaves their centres at least             *)
(* 2 * effectiveRadius apart (up to the rounding of the two shifts), and   *)
(* their velocities are the damped ones changed along the normal from the  *)
(* first to the second by 0.8 times the normal component of their          *)
(* difference                                                              *)
C28_SamePointPairResolved ==
  ( /\ Len(lastTick.before) = 2
    /\ lastTick.before[1].x = lastTick.before[2].x
    /\ lastTick.before[1].y = lastTick.before[2].y
    /\ lastTick.before[1].vx = 5 * Unit /\ lastTick.before[1].vy = 0
    /\ lastTick.before[2].vx = 0 - 5 * Unit /\ lastTick.before[2].vy = 0 )
  => LET a == lastTick.final[1]
         b == lastTick.final[2]
         da == lastTick.damped[1]
         db == lastTick.damped[2]
         nx == IF db.x > da.x THEN 1 ELSE 0 - 1
         along == (da.vx - db.vx) * nx
         change == Trunc((0 - along) * 8, 10) * nx
     IN  /\ Abs(b.x - a.x) >= minDistance - 2
         /\ a.y = b.y
         /\ a.vx = da.vx + change /\ a.vy = da.vy
         /\ b.vx = db.vx - change /\ b.vy = db.vy
         /\ a.vx # da.vx

(* the pair after a tick of 16 ms on a device lying flat: 35 px apart,     *)
(* with the velocities (-2.97, 0) and (2.97, 0)                            *)
C28_Witness ==
  /\ Len(lastTick.before) = 2
  /\ lastTick.before[1].x = lastTick.before[2].x
  /\ lastTick.before[1].vx = 5 * Unit /\ lastTick.before[2].vx = 0 - 5 * Unit
  /\ lastTick.final[1].x - lastTick.final[2].x = minDistance
  /\ lastTick.final[1].vx = 0 - 297 /\ lastTick.final[2].vx = 297
  /\ lastTick.final[1].vy = 0

(* C29: the pairwise pass changes the velocities of an overlapping pair    *)
(* only if the two particles are approaching (the second moves toward the  *)
(* first along the line through their centres); a pair that is moving      *)
(* apart keeps both velocities (stated for a list of two, one pair)        *)
C29_ImpulseOnlyWhenApproaching ==
  ( /\ Len(lastTick.damped) = 2
    /\ \/ lastTick.paired[1].x # lastTick.damped[1].x
       \/ lastTick.paired[1].y # lastTick.damped[1].y )
  => LET da == lastTick.damped[1]
         db == lastTick.damped[2]
         dx == db.x - da.x
         dy == db.y - da.y
         approaching == (db.vx - da.vx) * dx + (db.vy - da.vy) * dy < 0
     IN  ( \/ lastTick.paired[1].vx # da.vx \/ lastTick.paired[1].vy # da.vy
           \/ lastTick.paired[2].vx # db.vx \/ lastTick.paired[2].vy # db.vy )
         => approaching

(* C30: right after the boundary step of a run of update, each coordinate  *)
(* that the integration took out of [0, container extent - orangeSize] is  *)
(* on the boundary it crossed with its velocity component inverted and     *)
(* scaled by 0.8, and each coordinate that stayed inside has its position  *)
(* and velocity component as the integration left them                     *)
C30_BoundaryStep ==
  \A i \in DOMAIN lastTick.integrated :
    LET p == lastTick.integrated[i]
        b == lastTick.bounded[i]
    IN  /\ p.x < 0 => (b.x = 0 /\ b.vx = Trunc((0 - p.vx) * 8, 10))
        /\ p.x > containerWidth - size =>
             (b.x = containerWidth - size /\ b.vx = Trunc((0 - p.vx) * 8, 10))
        /\ (0 <= p.x /\ p.x <= containerWidth - size) => (b.x = p.x /\ b.vx = p.vx)
        /\ p.y < 0 => (b.y = 0 /\ b.vy = Trunc((0 - p.vy) * 8, 10))
        /\ p.y > containerHeight - size =>
             (b.y = containerHeight - size /\ b.vy = Trunc((0 - p.vy) * 8, 10))
        /\ (0 <= p.y /\ p.y <= containerHeight - size) => (b.y = p.y /\ b.vy = p.vy)
        /\ b.id = p.id

(* a tick whose integration took one particle through the left wall and    *)
(* through the floor and the other through the right wall                  *)
C30_Witness ==
  /\ Len(lastTick.integrated) = 2
  /\ lastTick.integrated[2].x < 0 /\ lastTick.integrated[2].vx < 0
  /\ lastTick.bounded[2].x = 0 /\ lastTick.bounded[2].vx > 0
  /\ lastTick.integrated[2].y > containerHeight - size
  /\ lastTick.bounded[2].y = containerHeight - size /\ lastTick.bounded[2].vy < 0
  /\ lastTick.integrated[1].x > containerWidth - size
  /\ lastTick.integrated[1].vx > 0
  /\ lastTick.bounded[1].x = containerWidth - size /\ lastTick.bounded[1].vx < 0

(* C31: the obstacle pass leaves every particle whose centre was closer to *)
(* the obstacle than effectiveRadius with its speed unchanged (up to       *)
(* rounding) and with its centre at least effectiveRadius away from the    *)
(* obstacle (up to rounding)                                               *)
C31_ObstaclePushesOut ==
  \A rect \in lastTick.rects : \A i \in DOMAIN lastTick.paired :
    LET p == lastTick.paired[i]
        q == lastTick.final[i]
        dp == CenterOffset(p, rect)
        dq == CenterOffset(q, rect)
        r == effectiveRadius
        speed2(o) == Trunc(o.vx, Unit) * Trunc(o.vx, Unit)
                       + Trunc(o.vy, Unit) * Trunc(o.vy, Unit)
    IN  ( /\ Abs(dp.x) < r /\ Abs(dp.y) < r
          /\ dp.x * dp.x + dp.y * dp.y < r * r )
        => /\ \/ Abs(dq.x) >= r - 2 \/ Abs(dq.y) >= r - 2
              \/ dq.x * dq.x + dq.y * dq.y >= (r - 2) * (r - 2)
           /\ Abs(speed2(q) - speed2(p))
                <= 4 * Trunc(Abs(p.vx) + Abs(p.vy), Unit) + 4

(* C32: for a particle whose centre is inside the obstacle (distance 0)    *)
(* the obstacle pass negates vy, keeps vx and x, and moves the particle up *)
(* by effectiveRadius                                                      *)
C32_CentreInsideGoesUp ==
  \A rect \in lastTick.rects : \A i \in DOMAIN lastTick.paired :
    CenterOffset(lastTick.paired[i], rect) = [x |-> 0, y |-> 0]
    => /\ lastTick.final[i].vx = lastTick.paired[i].vx
       /\ lastTick.final[i].vy = 0 - lastTick.paired[i].vy
       /\ lastTick.final[i].x = lastTick.paired[i].x
       /\ lastTick.final[i].y = lastTick.paired[i].y - effectiveRadius
       /\ lastTick.final[i].id = lastTick.paired[i].id

(* a tick found a falling particle with its centre inside the Start button *)
(* and left it rising, higher up                                           *)
C32_Witness ==
  /\ lastTick.rects = {StartButtonRect} /\ Len(lastTick.paired) = 1
  /\ CenterOffset(lastTick.paired[1], StartButtonRect) = [x |-> 0, y |-> 0]
  /\ lastTick.paired[1].vy > 0 /\ lastTick.final[1].vy < 0
  /\ lastTick.final[1].y < lastTick.paired[1].y
  /\ oranges = lastTick.final

(* C33: a run of update in a mode other than idle finds no obstacle, and a *)
(* run that finds none returns the list as the pairwise pass left it,      *)
(* after the integration, the boundary step, the damping and the pairwise  *)
(* pass have run on it                                                     *)
C33_NoObstacleOutsideIdle ==
  [][ nextFrameId' # nextFrameId =>
        /\ mode # "idle" => lastTick'.rects = {}
        /\ lastTick'.rects = {} =>
             /\ lastTick'.final = lastTick'.paired
             /\ lastTick'.before = oranges
             /\ \E dt \in Dts :
                  lastTick'.integrated =
                    [i \in 1 .. Len(oranges) |-> Integrate(oranges[i], lastAccel', dt)]
             /\ lastTick'.bounded =
                  [i \in 1 .. Len(oranges) |-> Boundary(lastTick'.integrated[i])]
             /\ lastTick'.damped =
                  [i \in 1 .. Len(oranges) |-> Damp(lastTick'.bounded[i])]
             /\ lastTick'.paired = Pairwise(lastTick'.damped)
    ]_vars

(* in work mode a tick moved a particle whose centre is where the Start    *)
(* button was, and the obstacle pass left it there                         *)
C33_Witness ==
  /\ mode = "work" /\ lastTick.rects = {} /\ Len(lastTick.final) = 1
  /\ CenterOffset(lastTick.final[1], StartButtonRect) = [x |-> 0, y |-> 0]
  /\ lastTick.final # lastTick.before
  /\ oranges = lastTick.final

(* C34: a run of update applies, once each and in this order, the          *)
(* integration, the boundary step, the damping of both velocity components *)
(* by 0.99, the pairwise pass and the obstacle pass: each list is the      *)
(* pass applied to the list before it, so the obstacle pass works on the   *)
(* velocities the pairwise pass assigned                                   *)
C34_PassOrder ==
  LET n == Len(lastTick.before)
  IN  /\ \E dt \in Dts \cup {0} :
           lastTick.integrated =
             [i \in 1 .. n |-> Integrate(lastTick.before[i],
                                         IF lastAccel = NoAccel THEN defaultAccel
                                         ELSE lastAccel, dt)]
      /\ lastTick.bounded = [i \in 1 .. n |-> Boundary(lastTick.integrated[i])]
      /\ lastTick.damped =
           [i \in 1 .. n |->
              [lastTick.bounded[i] EXCEPT
                 !.vx = Trunc(lastTick.bounded[i].vx * 99, 100),
                 !.vy = Trunc(lastTick.bounded[i].vy * 99, 100)]]
      /\ lastTick.paired = Pairwise(lastTick.damped)
      /\ lastTick.final =
           [i \in 1 .. n |->
              IF lastTick.rects = {} THEN lastTick.paired[i]
              ELSE ObstacleStep(lastTick.paired[i], StartButtonRect)]

(* a tick in which the pairwise pass changed the velocity of the second    *)
(* particle and moved it against the Start button, and the obstacle pass   *)
(* then reflected that velocity                                            *)
C34_Witness ==
  /\ Len(lastTick.final) = 2
  /\ lastTick.paired[2].vx # lastTick.damped[2].vx
  /\ lastTick.final[2].vy # lastTick.paired[2].vy
  /\ lastTick.final[2].vx = lastTick.paired[2].vx
  /\ lastTick.final[2] = ObstacleStep(lastTick.paired[2], StartButtonRect)
  /\ lastTick.damped[2].vx * 100 # lastTick.bounded[2].vx * 100
  /\ oranges = lastTick.final

(* C35: update never runs on a particle list whose length differs from the *)
(* count prop: the population effect of a render that changed the count    *)
(* has run before the next animation frame                                 *)
C35_PopulationBeforeTick ==
  [][ nextFrameId' # nextFrameId => Len(oranges) = pomodoroCount ]_vars

(* ---------------------------------------------------------------------- *)
(* Further properties of the timer and of persistence                     *)
(* ---------------------------------------------------------------------- *)

(* C36: while a work phase or a break is running no step changes its       *)
(* deadline: not a repeated startWork or startBreak, a duration change, a  *)
(* settings fetch, a session change or a tick that does not end the phase  *)
C36_DeadlineStable ==
  [][ (mode \in Running /\ mode' = mode) => endTime' = endTime ]_vars

(* a work phase in which the clock moved, the interval callback ran and    *)
(* the settings the page fetched arrived, before startWork was called      *)
(* again: the deadline is still the one set at its start                   *)
C36_Witness ==
  /\ mode = "work" /\ lastClick = "startWork"
  /\ now = LongJump /\ prevPoll # NoPoll
  /\ settingsFetches = {} /\ workTime = 1
  /\ endTime = NewEnd(0, DefaultWorkTime)

(* C37: a step in which recordPomodoro's update succeeds leaves the        *)
(* in-memory count equal to the stored count, and the stored count one     *)
(* more than it was, whatever count fetch is or was in flight              *)
C37_RecordKeepsCountsEqual ==
  [][ ( /\ recordUpdates' # recordUpdates
        /\ recordUpdates' \subseteq recordUpdates
        /\ persistFailed' = persistFailed )
      => /\ pomodoroCount' = dbCount'
         /\ dbCount' = dbCount + 1
    ]_vars

(* C38: the step that follows the click on a duration button, unless it is *)
(* another such click, leaves workTime and breakTime as selected: not even *)
(* the answer to the settings fetch the click caused changes them          *)
C38_SelectionStays ==
  [][ (lastClick = "select" /\ lastClick' # "select")
      => UNCHANGED << workTime, breakTime >> ]_vars

(* C39: a physics tick works on the particle list it finds and returns a   *)
(* list of the same length with the same ids in the same order, and the    *)
(* step of the tick leaves the timer state (mode, currentTime, endTime,    *)
(* durations) and the reward count unchanged                               *)
C39_TickKeepsParticles ==
  [][ nextFrameId' # nextFrameId =>
        /\ lastTick'.before = oranges
        /\ Len(lastTick'.final) = Len(oranges)
        /\ \A i \in 1 .. Len(oranges) : lastTick'.final[i].id = oranges[i].id
        /\ UNCHANGED << mode, currentTime, endTime, workTime, breakTime,
                        pomodoroCount >>
    ]_vars

(* a tick that moved three particles with three ids and resolved a contact *)
C39_Witness ==
  /\ nextFrameId > 0
  /\ Len(lastTick.before) = 3
  /\ Cardinality({lastTick.before[i].id : i \in 1 .. 3}) = 3
  /\ \A i \in 1 .. 3 : lastTick.final[i] # lastTick.before[i]
  /\ lastTick.paired # lastTick.damped

(* C40: in every tick, resolving any pair of the list the pairwise pass is *)
(* given leaves the sum of the two positions and the sum of the two        *)
(* velocities as they were and touches no other particle, a pair whose     *)
(* centres are at least minDistance apart is left as it was, and the whole *)
(* pass leaves the sums over the list as they were                         *)
C40_PairwiseConserves ==
  LET os == lastTick.damped
      Apart(a, b) ==
        \/ Abs(b.x - a.x) >= minDistance
        \/ Abs(b.y - a.y) >= minDistance
        \/ (b.x - a.x) * (b.x - a.x) + (b.y - a.y) * (b.y - a.y)
             >= minDistance * minDistance
      At(l, k) == IF k <= Len(l) THEN l[k] ELSE Orange(0, 0, 0, 0, 0)
      Total(l) ==
        << At(l, 1).x + At(l, 2).x + At(l, 3).x,
           At(l, 1).y + At(l, 2).y + At(l, 3).y,
           At(l, 1).vx + At(l, 2).vx + At(l, 3).vx,
           At(l, 1).vy + At(l, 2).vy + At(l, 3).vy >>
  IN  /\ \A i \in 1 .. Len(os) : \A j \in (i + 1) .. Len(os) :
           LET r == ResolvePair(os, i, j)
           IN  /\ r[i].x + r[j].x = os[i].x + os[j].x
               /\ r[i].y + r[j].y = os[i].y + os[j].y
               /\ r[i].vx + r[j].vx = os[i].vx + os[j].vx
               /\ r[i].vy + r[j].vy = os[i].vy + os[j].vy
               /\ \A k \in (1 .. Len(os)) \ {i, j} : r[k] = os[k]
               /\ Apart(os[i], os[j]) => r = os
      /\ Len(os) <= 3 => Total(lastTick.paired) = Total(os)
      /\ Len(os) = 2 => lastTick.paired = ResolvePair(os, 1, 2)

(* a tick whose pairwise pass separated a pair and exchanged an impulse,   *)
(* and left a third particle, apart from the first, out of that pair       *)
C40_Witness ==
  /\ nextFrameId > 0
  /\ Len(lastTick.damped) = 3
  /\ lastTick.paired[1].x # lastTick.damped[1].x
  /\ \E i \in 1 .. 3 : lastTick.paired[i].vx # lastTick.damped[i].vx
  /\ Abs(lastTick.damped[3].x - lastTick.damped[1].x) >= minDistance
====
